---------------------------- MODULE Spec2Model ----------------------------
(*
  A model of baspy's backend dispatcher (_get_cubes.py) and of its data
  citation generator (experimental/gen_data_citation.py).

  Strings are modelled as sequences of pieces; the string is the concatenation
  of its pieces.  The pieces are chosen so that a searched-for word (a family
  tag, an XML tag keyword) is always one whole piece and never arises from the
  concatenation of other pieces, so that "word is a substring of s" is "word
  is one of the pieces of s", and two strings are equal exactly when their
  piece sequences are.
*)
EXTENDS Integers, Sequences, FiniteSets, TLC

VARIABLES
    op,        \* the entry point that has been called ("none" before the call)
    arg,       \* the arguments of the call
    calls,     \* the calls made to the external collaborators, in order
    outcome,   \* how the call ended: [kind, exc, msg]
    cubes,     \* the local `cubes` of get_cubes at its return: [bound, val]
    cube,      \* the value get_cube returned
    remote,    \* the metadata service: the response body it serves per URL
    result     \* the value generate_citation / df_to_citations returned

vars == <<op, arg, calls, outcome, cubes, cube, remote, result>>

-----------------------------------------------------------------------------
(* Bounds of the model *)

MaxPathLen == 4
MaxRows == 2
MaxCubes == 2
MaxNameLen == 3
MaxCreators == 2
MaxRootChildren == 2
MaxBatchRows == 2

-----------------------------------------------------------------------------
(* Generic helpers *)

SeqsUpTo(S, n) == UNION {[1..k -> S] : k \in 0..n}

\* Python's `x in list`
In(x, list) == \E i \in 1..Len(list) : list[i] = x

NoResult == [none |-> TRUE]
NoOutcome == [kind |-> "none", exc |-> "", msg |-> ""]
Returned == [kind |-> "return", exc |-> "", msg |-> ""]
Raised(e, m) == [kind |-> "raise", exc |-> e, msg |-> m]

-----------------------------------------------------------------------------
(* The backend dispatcher: _get_cubes.py *)

Tag_cmip5 == <<"cmip5">>
Tag_happi == <<"happi">>

MsgMany == "Error: more than one cube present.  Try 'get_cubes' instead"
MsgNone == "Error: no cubes specified in catalogue."

PathPieces == {"/", "cmip5", "happi", "x"}
ExamplePaths ==
    { <<"a", "/", "b", "/", "cmip5", "/", "c">>, <<"a", "/", "happi", "/", "b">> }
Paths == SeqsUpTo(PathPieces, MaxPathLen) \cup ExamplePaths
TailPaths == { <<"cmip5">>, <<"happi">>, <<"x">> }
IndexBases == {0, 5}
ConstraintValues == {"None", "constraint"}

\* A pandas DataFrame of n rows: its row labels and its rows.
DataFrame(index, rows) == [kind |-> "DataFrame", index |-> index, rows |-> rows]
\* A pandas Series holding one catalogue row: its name (the row's label in the
\* catalogue it was taken from) and its values.
Series(name, values) == [kind |-> "Series", index |-> <<name>>, rows |-> <<values>>]

Catalogues ==
    { DataFrame([i \in 1..Len(ps) |-> b + i - 1], [i \in 1..Len(ps) |-> [Path |-> ps[i]]]) :
        b \in IndexBases,
        ps \in {<<>>} \cup { <<p>> \o t : p \in Paths, t \in SeqsUpTo(TailPaths, MaxRows - 1) } }
    \cup { Series(b, [Path |-> p]) : b \in IndexBases, p \in Paths }

\* pd.DataFrame([filt_cat.values], columns=filt_cat.keys()): a one-row table
\* with the default row label 0.
SeriesToDataFrame(filt_cat) == DataFrame(<<0>>, <<filt_cat.rows[1]>>)

Normalise(filt_cat) ==
    IF filt_cat.kind = "Series" THEN SeriesToDataFrame(filt_cat) ELSE filt_cat

\* re.split('/', path0)
RECURSIVE Split(_)
SplitWhole(p) == [i \in 1..Len(p) |-> <<p[i]>>]
Split(p) ==
    IF \A i \in 1..Len(p) : p[i] # "/"
    THEN <<p>>
    ELSE LET i == CHOOSE k \in 1..Len(p) :
                    p[k] = "/" /\ \A j \in 1..(k - 1) : p[j] # "/"
         IN <<SubSeq(p, 1, i - 1)>> \o Split(SubSeq(p, i + 1, Len(p)))

\* What a backend returns: a sequence of n cube objects of its own making.
BackendCubes(backend, n) == [i \in 1..n |-> [by |-> backend, id |-> i]]
NoCube == [by |-> "none", id |-> 0]

BackendCall(backend, filt_cat, constraints, verbose, ret) ==
    [to |-> backend, filt_cat |-> filt_cat, constraints |-> constraints,
     verbose |-> verbose, ret |-> ret]

Unbound == [bound |-> FALSE, val |-> <<>>]
Bound(v) == [bound |-> TRUE, val |-> v]

\* get_cubes, given what each backend returns when called.  The result is the
\* calls made, the outcome and the local `cubes` at the end.
get_cubes_elif(filt_cat, constraints, verbose, ret5, retH) ==
    LET fc == Normalise(filt_cat) IN
    IF Len(fc.rows) = 0
    THEN [calls |-> <<>>, outcome |-> Raised("IndexError", ""), cubes |-> Unbound]
    ELSE
      LET split_str == Split(fc.rows[1].Path)
          is5 == In(Tag_cmip5, split_str)
          isH == In(Tag_happi, split_str) /\ ~is5
          calls1 == IF is5
                    THEN <<BackendCall("cmip5", fc, constraints, verbose, ret5)>>
                    ELSE <<>>
          cubes1 == IF is5 THEN Bound(ret5) ELSE Unbound
          calls2 == IF isH
                    THEN calls1 \o <<BackendCall("happi", fc, constraints, verbose, retH)>>
                    ELSE calls1
          cubes2 == IF isH THEN Bound(retH) ELSE cubes1
      IN [calls |-> calls2,
          outcome |-> IF cubes2.bound THEN Returned ELSE Raised("UnboundLocalError", ""),
          cubes |-> cubes2]

get_cubes_none(filt_cat, constraints, verbose, ret5, retH) ==
    LET fc == Normalise(filt_cat) IN
    IF Len(fc.rows) = 0
    THEN [calls |-> <<>>, outcome |-> Raised("IndexError", ""), cubes |-> Unbound]
    ELSE
      LET split_str == Split(fc.rows[1].Path)
          is5 == In(Tag_cmip5, split_str)
          isH == In(Tag_happi, split_str)
          calls1 == IF is5
                    THEN <<BackendCall("cmip5", fc, constraints, verbose, ret5)>>
                    ELSE <<>>
          calls2 == IF isH
                    THEN calls1 \o <<BackendCall("happi", fc, constraints, verbose, retH)>>
                    ELSE calls1
          cubes2 == IF isH THEN Bound(retH) ELSE IF is5 THEN Bound(ret5) ELSE Bound(<<>>)
      IN [calls |-> calls2, outcome |-> Returned, cubes |-> cubes2]

get_cubes(filt_cat, constraints, verbose, ret5, retH) ==
    \* lines 8-9: convert a Series to a DataFrame
    LET fc == Normalise(filt_cat) IN
    \* line 12: filt_cat.iloc[0]
    IF Len(fc.rows) = 0
    THEN [calls |-> <<>>, outcome |-> Raised("IndexError", ""), cubes |-> Unbound]
    ELSE
      LET split_str == Split(fc.rows[1].Path)
          \* lines 16-18
          is5 == In(Tag_cmip5, split_str)
          calls1 == IF is5
                    THEN <<BackendCall("cmip5", fc, constraints, verbose, ret5)>>
                    ELSE <<>>
          cubes1 == IF is5 THEN Bound(ret5) ELSE Unbound
          \* lines 20-22
          isH == In(Tag_happi, split_str)
          calls2 == IF isH
                    THEN calls1 \o <<BackendCall("happi", fc, constraints, verbose, retH)>>
                    ELSE calls1
          cubes2 == IF isH THEN Bound(retH) ELSE cubes1
      \* line 24: return cubes
      IN [calls |-> calls2,
          outcome |-> IF cubes2.bound THEN Returned ELSE Raised("UnboundLocalError", ""),
          cubes |-> cubes2]

\* get_cube raising before any call of get_cubes
RaisedBeforeDispatch(o) == [calls |-> <<>>, outcome |-> o, cubes |-> Unbound, cube |-> NoCube]

\* get_cube, given what each backend returns when called.
get_cube_swapped(filt_cat, constraints, verbose, ret5, retH) ==
    LET fc == Normalise(filt_cat)
        n == Len(fc.rows)
        inner == get_cubes(fc, constraints, verbose, ret5, retH)
    IN
    IF n = 1
    THEN IF inner.outcome.kind = "raise"
         THEN [calls |-> inner.calls, outcome |-> inner.outcome,
               cubes |-> inner.cubes, cube |-> NoCube]
         ELSE IF Len(inner.cubes.val) = 0
         THEN [calls |-> inner.calls, outcome |-> Raised("IndexError", ""),
               cubes |-> inner.cubes, cube |-> NoCube]
         ELSE [calls |-> inner.calls, outcome |-> Returned,
               cubes |-> inner.cubes, cube |-> inner.cubes.val[1]]
    ELSE IF n > 1
    THEN RaisedBeforeDispatch(Raised("ValueError", MsgNone))
    ELSE RaisedBeforeDispatch(Raised("ValueError", MsgMany))

get_cube_default_verbose(filt_cat, constraints, verbose, ret5, retH) ==
    LET fc == Normalise(filt_cat)
        n == Len(fc.rows)
        inner == get_cubes(fc, constraints, TRUE, ret5, retH)
    IN
    IF n = 1
    THEN IF inner.outcome.kind = "raise"
         THEN [calls |-> inner.calls, outcome |-> inner.outcome,
               cubes |-> inner.cubes, cube |-> NoCube]
         ELSE IF Len(inner.cubes.val) = 0
         THEN [calls |-> inner.calls, outcome |-> Raised("IndexError", ""),
               cubes |-> inner.cubes, cube |-> NoCube]
         ELSE [calls |-> inner.calls, outcome |-> Returned,
               cubes |-> inner.cubes, cube |-> inner.cubes.val[1]]
    ELSE IF n > 1
    THEN RaisedBeforeDispatch(Raised("ValueError", MsgMany))
    ELSE RaisedBeforeDispatch(Raised("ValueError", MsgNone))

get_cube(filt_cat, constraints, verbose, ret5, retH) ==
    \* lines 30-31
    LET fc == Normalise(filt_cat)
        n == Len(fc.rows)
        inner == get_cubes(fc, constraints, verbose, ret5, retH)
    IN
    \* lines 33-35
    IF n = 1
    THEN IF inner.outcome.kind = "raise"
         THEN [calls |-> inner.calls, outcome |-> inner.outcome,
               cubes |-> inner.cubes, cube |-> NoCube]
         ELSE IF Len(inner.cubes.val) = 0
         THEN [calls |-> inner.calls, outcome |-> Raised("IndexError", ""),
               cubes |-> inner.cubes, cube |-> NoCube]
         \* line 42, lines 37-40 not applying to one row
         ELSE [calls |-> inner.calls, outcome |-> Returned,
               cubes |-> inner.cubes, cube |-> inner.cubes.val[1]]
    \* lines 37-38
    ELSE IF n > 1
    THEN RaisedBeforeDispatch(Raised("ValueError", MsgMany))
    \* lines 39-40
    ELSE RaisedBeforeDispatch(Raised("ValueError", MsgNone))

\* The backends a call on this catalogue reaches: a backend that is not called
\* returns nothing that matters.
Reaches(filt_cat, tag) ==
    LET fc == Normalise(filt_cat) IN
    Len(fc.rows) > 0 /\ In(tag, Split(fc.rows[1].Path))

BackendReturns(filt_cat, tag, backend) ==
    IF Reaches(filt_cat, tag)
    THEN { BackendCubes(backend, n) : n \in 0..MaxCubes }
    ELSE { <<>> }

GetCubes ==
    /\ op = "none"
    /\ \E fc \in Catalogues, c \in ConstraintValues, v \in BOOLEAN :
         \E r5 \in BackendReturns(fc, Tag_cmip5, "cmip5"),
            rH \in BackendReturns(fc, Tag_happi, "happi") :
           LET r == get_cubes(fc, c, v, r5, rH) IN
           /\ op' = "get_cubes"
           /\ arg' = [filt_cat |-> fc, constraints |-> c, verbose |-> v]
           /\ calls' = r.calls
           /\ outcome' = r.outcome
           /\ cubes' = r.cubes
           /\ cube' = NoCube
    /\ UNCHANGED <<remote, result>>

GetCube ==
    /\ op = "none"
    /\ \E fc \in Catalogues, c \in ConstraintValues, v \in BOOLEAN :
         \E r5 \in BackendReturns(fc, Tag_cmip5, "cmip5"),
            rH \in BackendReturns(fc, Tag_happi, "happi") :
           LET r == get_cube(fc, c, v, r5, rH) IN
           /\ op' = "get_cube"
           /\ arg' = [filt_cat |-> fc, constraints |-> c, verbose |-> v]
           /\ calls' = r.calls
           /\ outcome' = r.outcome
           /\ cubes' = r.cubes
           /\ cube' = r.cube
    /\ UNCHANGED <<remote, result>>

NoArg == [filt_cat |-> DataFrame(<<>>, <<>>), constraints |-> "None", verbose |-> TRUE]

InitDispatch ==
    /\ op = "none"
    /\ arg = NoArg
    /\ calls = <<>>
    /\ outcome = NoOutcome
    /\ cubes = Unbound
    /\ cube = NoCube
    /\ remote = <<>>
    /\ result = NoResult

NextDispatch == GetCubes \/ GetCube

SpecDispatch == InitDispatch /\ [][NextDispatch]_vars

-----------------------------------------------------------------------------
(* The citation generator: experimental/gen_data_citation.py *)

\* A Python value that is a string or None
PyStr(s) == [isNone |-> FALSE, s |-> s]
PyNone == [isNone |-> TRUE, s |-> <<>>]
\* How an f-string formats it
Format(v) == IF v.isNone THEN <<"None">> ELSE v.s

\* str.isupper() of one character
UpperCase == {"J", "P", "T", "R", "M"}
IsUpper(c) == c \in UpperCase

\* word is a substring of the tag
Has(tag, word) == \E i \in 1..Len(tag) : tag[i] = word

\* sep.join(list), for a list of strings
RECURSIVE Join(_, _)
Join(sep, list) ==
    IF list = <<>> THEN <<>>
    ELSE IF Len(list) = 1 THEN list[1]
    ELSE list[1] \o sep \o Join(sep, Tail(list))

\* line 65: ".".join([c for c in s if c.isupper()]) + "."
InitialsFirstOnly(s) ==
    (IF s # <<>> /\ IsUpper(s[1]) THEN <<s[1]>> ELSE <<>>) \o <<".">>
Initials(s) ==
    LET upper == SelectSeq(s, IsUpper)
    IN Join(<<".">>, [i \in 1..Len(upper) |-> <<upper[i]>>]) \o <<".">>

\* An element of the parsed document
Element(tag, attrib, text, children) ==
    [tag |-> tag, attrib |-> attrib, text |-> text, children |-> children]
HasAttr(e, k) == \E a \in e.attrib : a[1] = k
Attr(e, k) == (CHOOSE a \in e.attrib : a[1] = k)[2]

\* lines 31-35
Url(key) ==
    <<"https://cera-www.dkrz.de/WDCC/ui/cerasearch/cerarest/", "exportcmip6?input=CMIP6.">>
    \o key.MIP \o <<".">> \o key.Centre \o <<".">> \o key.Model \o <<".">> \o key.Experiment
    \o <<"&wt=XML">>

Request(url, response) == [to |-> "GET", url |-> url, response |-> response]

\* lines 55-59: the children of one creator
RECURSIVE ScanCreator(_, _)
ScanCreator(xs, st) ==
    IF xs = <<>> THEN st
    ELSE LET x == Head(xs)
             st1 == IF Has(x.tag, "givenName")
                    THEN [st EXCEPT !.givenNames = Append(@, x.text)]
                    ELSE IF Has(x.tag, "familyName")
                    THEN [st EXCEPT !.familyNames = Append(@, x.text)]
                    ELSE st
         IN ScanCreator(Tail(xs), st1)

\* line 54: the creators of a creators element
RECURSIVE ScanCreators(_, _)
ScanCreators(creators, st) ==
    IF creators = <<>> THEN st
    ELSE ScanCreators(Tail(creators), ScanCreator(Head(creators).children, st))

\* lines 50-63: the children of the root; st.exc names the exception raised
RECURSIVE ScanRoot(_, _)
ScanRoot(children, st) ==
    IF children = <<>> \/ st.exc # "" THEN st
    ELSE LET child == Head(children)
             st1 ==
                IF Has(child.tag, "identifier") /\ ~HasAttr(child, "identifierType")
                THEN [st EXCEPT !.exc = "KeyError"]
                ELSE IF Has(child.tag, "identifier") /\ Attr(child, "identifierType") = "DOI"
                THEN [st EXCEPT !.doi = child.text]
                ELSE IF Has(child.tag, "creators")
                THEN ScanCreators(child.children, st)
                ELSE IF Has(child.tag, "publisher")
                THEN [st EXCEPT !.publisher = child.text]
                ELSE IF Has(child.tag, "publicationYear")
                THEN [st EXCEPT !.publicationYear = child.text]
                ELSE st
         IN ScanRoot(Tail(children), st1)

\* lines 44-48
Defaults ==
    [doi |-> PyStr(<<>>), publisher |-> PyStr(<<>>), publicationYear |-> PyStr(<<>>),
     givenNames |-> <<>>, familyNames |-> <<>>, exc |-> ""]

\* zip(a, b)
Min(a, b) == IF a < b THEN a ELSE b
Zip(a, b) == [i \in 1..Min(Len(a), Len(b)) |-> <<a[i], b[i]>>]

Failed(request, exc) ==
    [calls |-> <<request>>, outcome |-> Raised(exc, ""), result |-> NoResult]

\* generate_citation, given the response the service sends
generate_citation(key, response) ==
    LET request == Request(Url(key), response) IN
    \* line 36
    IF response.kind = "unreachable" THEN Failed(request, "ConnectionError")
    \* line 39
    ELSE IF response.kind # "xml" THEN Failed(request, "ParseError")
    ELSE
      LET st == ScanRoot(response.root.children, Defaults) IN
      IF st.exc # "" THEN Failed(request, st.exc)
      \* line 65: iterating over a name that is None
      ELSE IF \E i \in 1..Len(st.givenNames) : st.givenNames[i].isNone
      THEN Failed(request, "TypeError")
      ELSE
        LET initials == [i \in 1..Len(st.givenNames) |-> Initials(st.givenNames[i].s)]
            pairs == Zip(st.familyNames, initials)
        IN
        \* line 66: joining a name that is None
        IF \E i \in 1..Len(pairs) : pairs[i][1].isNone
        THEN Failed(request, "TypeError")
        ELSE
          LET names == [i \in 1..Len(pairs) |-> Join(<<", ">>, <<pairs[i][1].s, pairs[i][2]>>)]
              \* lines 68-71
              citation ==
                  Join(<<", ">>, names)
                  \o <<" (">> \o Format(st.publicationYear) \o <<"). ">>
                  \o key.Centre \o <<" ">> \o key.Model
                  \o <<" model output prepared for CMIP6 ">>
                  \o key.MIP \o <<" ">> \o key.Experiment \o <<". ">>
                  \o key.Version \o <<". ">> \o Format(st.publisher)
                  \o <<". https://doi.org/">> \o Format(st.doi)
          \* lines 73-86
          IN [calls |-> <<request>>,
              outcome |-> Returned,
              result |-> [MIP |-> key.MIP, Centre |-> key.Centre, Model |-> key.Model,
                          Experiment |-> key.Experiment, Version |-> key.Version,
                          doi |-> st.doi, publisher |-> st.publisher,
                          publicationYear |-> st.publicationYear,
                          givenNames |-> st.givenNames, familyNames |-> st.familyNames,
                          names |-> names, citation |-> citation]]

CitationColumns ==
    {"MIP", "Centre", "Model", "Experiment", "Version", "doi", "publisher",
     "publicationYear", "givenNames", "familyNames", "names", "citation"}

\* pd.DataFrame(results): one row per record, in order, labelled 0, 1, ...; no
\* record, no column
Table(results) ==
    [columns |-> IF results = <<>> THEN {} ELSE CitationColumns,
     index |-> [i \in 1..Len(results) |-> i - 1],
     rows |-> results]

\* lines 95-101: the loop over df.itertuples(), from row i on
RECURSIVE Accumulate(_, _, _, _, _)
Accumulate(rows, i, service, requests, results) ==
    IF i > Len(rows)
    THEN [calls |-> requests, outcome |-> Returned, result |-> Table(results)]
    ELSE LET r == generate_citation(rows[i], service[Url(rows[i])])
         IN IF r.outcome.kind = "raise"
            THEN [calls |-> requests \o r.calls, outcome |-> r.outcome, result |-> NoResult]
            ELSE Accumulate(rows, i + 1, service, requests \o r.calls,
                            Append(results, r.result))

df_to_citations_reversed(df, service) ==
    Accumulate([i \in 1..Len(df.rows) |-> df.rows[Len(df.rows) + 1 - i]], 1, service, <<>>, <<>>)

df_to_citations(df, service) == Accumulate(df.rows, 1, service, <<>>, <<>>)

\* The inputs: identity keys, and the documents the service may serve

Key(mip, version) ==
    [MIP |-> mip, Centre |-> <<"MOHC">>, Model |-> <<"HadGEM3-GC31-LL">>,
     Experiment |-> <<"historical">>, Version |-> version]
KeyPool ==
    { Key(m, v) : m \in {<<"CMIP">>, <<"ScenarioMIP">>},
                  v \in {<<"v20190624">>, <<"v20200101">>} }
Url_CMIP == Url(Key(<<"CMIP">>, <<"v20190624">>))
Url_ScenarioMIP == Url(Key(<<"ScenarioMIP">>, <<"v20190624">>))

Namespace == "{http://datacite.org/schema/kernel-4}"
Leaf(word, attrib, text) == Element(<<Namespace, word>>, attrib, text, <<>>)
Xml(children) == [kind |-> "xml", root |-> Element(<<Namespace, "resource">>, {}, PyNone, children)]
Unreachable == [kind |-> "unreachable", root |-> Element(<<>>, {}, PyNone, <<>>)]
NotXml == [kind |-> "notxml", root |-> Element(<<>>, {}, PyNone, <<>>)]

Jeff == <<"J", "e", "f", "f">>
JeanPaul == <<"J", "e", "a", "n", "-", "P", "a", "u", "l">>
JT == <<"J", ".", "T", ".">>
GivenList == <<Jeff, JeanPaul, JT>>
FamilyList == << <<"Ridley">>, <<"Menary">>, <<"Kuhlbrodt">> >>
GivenOf(i) == PyStr(GivenList[((i - 1) % 3) + 1])
FamilyOf(i) == PyStr(FamilyList[((i - 1) % 3) + 1])

GivenName(text) == Leaf("givenName", {}, text)
FamilyName(text) == Leaf("familyName", {}, text)
Creator(children) == Element(<<Namespace, "creator">>, {}, PyNone, children)
Creators(creators) == Element(<<Namespace, "creators">>, {}, PyNone, creators)

IdentifierDOI == Leaf("identifier", {<<"identifierType", "DOI">>}, PyStr(<<"10.22033/ESGF/CMIP6.6109">>))
IdentifierURL == Leaf("identifier", {<<"identifierType", "URL">>}, PyStr(<<"http://example.org">>))
IdentifierUntyped == Leaf("identifier", {}, PyStr(<<"10.22033/ESGF/CMIP6.6109">>))
Publisher == Leaf("publisher", {}, PyStr(<<"Earth System Grid Federation">>))
PublicationYear == Leaf("publicationYear", {}, PyStr(<<"2019">>))
Titles == Leaf("titles", {}, PyNone)

\* Documents that vary the given name of one creator
NameAlphabet == {"J", "P", "e", "."}
GivenTexts ==
    { PyStr(g) : g \in SeqsUpTo(NameAlphabet, MaxNameLen) \cup {Jeff, JeanPaul, JT} }
    \cup {PyNone}
FamilyTexts == {FamilyOf(1), PyNone}
NameResponses ==
    { Xml(<<Creators(<<Creator(<<GivenName(g), FamilyName(f)>>)>>)>>) :
        g \in GivenTexts, f \in FamilyTexts }
    \cup { Xml(<<Creators(<<Creator(<<GivenName(GivenOf(2)), FamilyName(FamilyOf(2))>>),
                            Creator(<<FamilyName(FamilyOf(1)), GivenName(GivenOf(1))>>)>>)>>) }

\* Documents that vary the structure: which children the root has and which
\* children each creator has, creator i being named GivenOf(i) FamilyOf(i)
CreatorShapes ==
    { <<>>, <<"givenName">>, <<"familyName">>, <<"givenName", "familyName">>,
      <<"familyName", "givenName">>, <<"givenName", "affiliation", "familyName">> }
CreatorOf(shape, i) ==
    Creator([k \in 1..Len(shape) |->
               IF shape[k] = "givenName" THEN GivenName(GivenOf(i))
               ELSE IF shape[k] = "familyName" THEN FamilyName(FamilyOf(i))
               ELSE Leaf(shape[k], {}, PyStr(<<"Met Office">>))])
CreatorsElements ==
    { Creators([i \in 1..Len(shapes) |-> CreatorOf(shapes[i], i)]) :
        shapes \in SeqsUpTo(CreatorShapes, MaxCreators) }
RootChildren ==
    { IdentifierDOI, IdentifierURL, IdentifierUntyped, Publisher, PublicationYear, Titles }
    \cup CreatorsElements
StructuredResponses == { Xml(children) : children \in SeqsUpTo(RootChildren, MaxRootChildren) }

\* The responses served to a batch
ExampleResponse ==
    Xml(<<IdentifierDOI,
          Creators(<<CreatorOf(<<"givenName", "familyName">>, 1),
                     CreatorOf(<<"givenName", "familyName">>, 2)>>),
          Publisher, PublicationYear>>)
BatchResponses == { ExampleResponse, Xml(<<>>), Xml(<<IdentifierUntyped>>), Unreachable, NotXml }
BatchTables ==
    { DataFrame([i \in 1..Len(rows) |-> i - 1], rows) : rows \in SeqsUpTo(KeyPool, MaxBatchRows) }

GenerateCitation ==
    /\ op = "none"
    /\ \E key \in KeyPool :
         /\ Url(key) \in DOMAIN remote
         /\ LET r == generate_citation(key, remote[Url(key)]) IN
            /\ op' = "generate_citation"
            /\ arg' = key
            /\ calls' = r.calls
            /\ outcome' = r.outcome
            /\ result' = r.result
    /\ UNCHANGED <<cubes, cube, remote>>

DfToCitations ==
    /\ op = "none"
    /\ \E df \in BatchTables :
         /\ \A i \in 1..Len(df.rows) : Url(df.rows[i]) \in DOMAIN remote
         /\ LET r == df_to_citations(df, remote) IN
            /\ op' = "df_to_citations"
            /\ arg' = df
            /\ calls' = r.calls
            /\ outcome' = r.outcome
            /\ result' = r.result
    /\ UNCHANGED <<cubes, cube, remote>>

InitCitationWith(urls, responses) ==
    /\ op = "none"
    /\ arg = NoArg
    /\ calls = <<>>
    /\ outcome = NoOutcome
    /\ cubes = Unbound
    /\ cube = NoCube
    /\ remote \in [urls -> responses]
    /\ result = NoResult

InitNames == InitCitationWith({Url_CMIP}, NameResponses)
InitCitation == InitCitationWith({Url_CMIP}, StructuredResponses)
InitBatch == InitCitationWith({Url_CMIP, Url_ScenarioMIP}, BatchResponses)

NextCitation == GenerateCitation
NextBatch == GenerateCitation \/ DfToCitations

SpecNames == InitNames /\ [][NextCitation]_vars
SpecCitation == InitCitation /\ [][NextCitation]_vars
SpecBatch == InitBatch /\ [][NextBatch]_vars


-----------------------------------------------------------------------------
(* Properties of the dispatcher *)

\* The call's catalogue in tabular form, and its first row's path
ArgTable == Normalise(arg.filt_cat)
ArgRows == Len(ArgTable.rows)
Path0 == ArgTable.rows[1].Path

\* tag is one whole '/'-separated segment of the path p
HasSegment(p, tag) ==
    \E i \in 1..Len(p) :
        /\ p[i] = tag[1]
        /\ (i = 1 \/ p[i - 1] = "/")
        /\ (i = Len(p) \/ p[i + 1] = "/")

\* The call get_cubes or get_cube makes to a backend with its own arguments
Forwarded(backend) ==
    { BackendCall(backend, ArgTable, arg.constraints, arg.verbose, BackendCubes(backend, n)) :
        n \in 0..MaxCubes }

\* C1: get_cube on a catalogue of zero rows raises the ValueError "no cubes
\* specified in catalogue", on one of two or more rows the ValueError "more than
\* one cube present"; in both cases no backend is called and no cube returned.
C1_RowCountErrors ==
    (op = "get_cube" /\ ArgRows # 1) =>
        /\ outcome = Raised("ValueError", IF ArgRows = 0 THEN MsgNone ELSE MsgMany)
        /\ calls = <<>>
        /\ cube = NoCube

C1_Witness ==
    /\ op = "get_cube"
    /\ ArgRows = 2
    /\ HasSegment(Path0, Tag_cmip5)
    /\ outcome = Raised("ValueError", MsgMany)

C1_WitnessEmpty ==
    /\ op = "get_cube"
    /\ ArgRows = 0
    /\ outcome = Raised("ValueError", MsgNone)

\* What a direct call of get_cubes with the arguments of the call that was made
\* does, the backends returning what they returned to the call that was made.
ReturnOf(backend) ==
    IF \E i \in 1..Len(calls) : calls[i].to = backend
    THEN calls[CHOOSE i \in 1..Len(calls) : calls[i].to = backend].ret
    ELSE <<>>

DirectGetCubes ==
    get_cubes(arg.filt_cat, arg.constraints, arg.verbose,
              ReturnOf("cmip5"), ReturnOf("happi"))

\* C2: when get_cubes returns a one-element sequence for a single-row record
\* (flat or tabular), get_cube with the same arguments makes the same backend
\* calls and returns that one element.
C2_SoleElement ==
    (/\ op = "get_cube"
     /\ ArgRows = 1
     /\ DirectGetCubes.outcome.kind = "return"
     /\ Len(DirectGetCubes.cubes.val) = 1) =>
        /\ outcome = Returned
        /\ calls = DirectGetCubes.calls
        /\ cube = DirectGetCubes.cubes.val[1]

C2_Witness ==
    /\ op = "get_cube"
    /\ arg.filt_cat.kind = "Series"
    /\ ~arg.verbose
    /\ arg.constraints # "None"
    /\ outcome = Returned
    /\ Len(cubes.val) = 1
    /\ cube = cubes.val[1]

\* C3: when exactly one family tag is a whole segment of the first row's Path,
\* get_cubes calls that family's backend once, with the record in tabular form
\* and its own constraints and verbose, calls no other backend and returns what
\* that backend returned.
C3_SingleTagDispatch ==
    \A t \in {"cmip5", "happi"} :
        (/\ op = "get_cubes"
         /\ ArgRows >= 1
         /\ HasSegment(Path0, <<t>>)
         /\ \A u \in {"cmip5", "happi"} \ {t} : ~HasSegment(Path0, <<u>>)) =>
            /\ Len(calls) = 1
            /\ calls[1] \in Forwarded(t)
            /\ ArgTable.rows = arg.filt_cat.rows
            /\ outcome = Returned
            /\ cubes = Bound(calls[1].ret)

\* a happi first row followed by a cmip5 row, the first row's path holding a
\* segment that merely contains 'cmip5'
C3_Witness ==
    /\ op = "get_cubes"
    /\ ArgRows = 2
    /\ Path0 = <<"cmip5", "x", "/", "happi">>
    /\ ArgTable.rows[2].Path = <<"cmip5">>
    /\ Len(calls) = 1
    /\ calls[1].to = "happi"
    /\ outcome = Returned
    /\ Len(cubes.val) = 2

\* C4 as stated: when no family tag is a segment of the first row's Path,
\* get_cubes calls no backend and ends without raising an error.
C4_EndsSilently ==
    (/\ op = "get_cubes"
     /\ ArgRows >= 1
     /\ ~HasSegment(Path0, Tag_cmip5)
     /\ ~HasSegment(Path0, Tag_happi)) =>
        /\ calls = <<>>
        /\ outcome.kind # "raise"

\* C4 as amended: when no family tag is a segment of the first row's Path,
\* get_cubes calls no backend and raises UnboundLocalError at its return, its
\* local `cubes` never having been assigned.
C4_RaisesUnbound ==
    (/\ op = "get_cubes"
     /\ ArgRows >= 1
     /\ ~HasSegment(Path0, Tag_cmip5)
     /\ ~HasSegment(Path0, Tag_happi)) =>
        /\ calls = <<>>
        /\ outcome = Raised("UnboundLocalError", "")
        /\ cubes = Unbound

C4_Witness ==
    /\ op = "get_cubes"
    /\ ArgRows = 2
    /\ Path0 = <<"x", "/", "cmip5", "x">>
    /\ ArgTable.rows[2].Path = <<"cmip5">>
    /\ outcome = Raised("UnboundLocalError", "")

\* C9: when both 'cmip5' and 'happi' are segments of the first row's Path,
\* get_cubes calls the cmip5 backend and then the happi backend and returns
\* what the happi backend returned.
C9_LaterTagWins ==
    (/\ op = "get_cubes"
     /\ ArgRows >= 1
     /\ HasSegment(Path0, Tag_cmip5)
     /\ HasSegment(Path0, Tag_happi)) =>
        /\ Len(calls) = 2
        /\ calls[1] \in Forwarded("cmip5")
        /\ calls[2] \in Forwarded("happi")
        /\ outcome = Returned
        /\ cubes = Bound(calls[2].ret)

C9_Witness ==
    /\ op = "get_cubes"
    /\ ArgRows = 1
    /\ Path0 = <<"happi", "/", "cmip5">>
    /\ Len(calls) = 2
    /\ Len(calls[1].ret) = 2
    /\ Len(calls[2].ret) = 1
    /\ cubes = Bound(BackendCubes("happi", 1))

\* C10: when the record has one row and get_cubes returns a sequence that is
\* not a singleton, get_cube does not return a cube.
C10_GuardsSingleton ==
    (/\ op = "get_cube"
     /\ ArgRows = 1
     /\ cubes.bound
     /\ Len(cubes.val) # 1) =>
        outcome.kind = "raise"

-----------------------------------------------------------------------------
(* Properties of the citation generator *)

\* The response the service gave to the single request of generate_citation
Response == calls[1].response

\* Every uppercase character of the name, in order, each followed by a period;
\* a lone period when the name has none
DottedInitials(s) ==
    LET upper == SelectSeq(s, IsUpper)
    IN IF upper = <<>> THEN <<".">>
       ELSE [k \in 1..(2 * Len(upper)) |-> IF k % 2 = 1 THEN upper[(k + 1) \div 2] ELSE "."]

\* C5 as stated: each entry of names is the family name, ", ", and the
\* uppercase characters of the given name with nothing between them, followed
\* by one period ("Jean-Paul" gives "JP.").
C5_ConcatenatedInitials ==
    (op = "generate_citation" /\ outcome = Returned) =>
        \A i \in 1..Len(result.names) :
            result.names[i] =
                result.familyNames[i].s \o <<", ">>
                \o SelectSeq(result.givenNames[i].s, IsUpper) \o <<".">>

\* C5 as amended: each entry of names is the family name, ", ", and the
\* uppercase characters of the given name, in order, each followed by a period
\* ("Jeff" gives "J.", "Jean-Paul" gives "J.P.", "J.T." gives "J.T."); a given
\* name without uppercase characters gives ".".
C5_DottedInitials ==
    (op = "generate_citation" /\ outcome = Returned) =>
        \A i \in 1..Len(result.names) :
            result.names[i] =
                result.familyNames[i].s \o <<", ">> \o DottedInitials(result.givenNames[i].s)

C5_Witness ==
    /\ op = "generate_citation"
    /\ outcome = Returned
    /\ result.givenNames = <<PyStr(JeanPaul), PyStr(Jeff)>>
    /\ result.names = << <<"Menary", ", ", "J", ".", "P", ".">>, <<"Ridley", ", ", "J", ".">> >>

\* The creator elements of a document, in document order
RECURSIVE CreatorsIn(_)
CreatorsIn(children) ==
    IF children = <<>> THEN <<>>
    ELSE (IF Has(Head(children).tag, "creators") THEN Head(children).children ELSE <<>>)
         \o CreatorsIn(Tail(children))

HasChild(e, word, text) ==
    \E k \in 1..Len(e.children) : Has(e.children[k].tag, word) /\ e.children[k].text = text

\* C6: in every record returned, givenNames, familyNames and names have the
\* same length, and names[i] is built from familyNames[i] and the initials of
\* givenNames[i], both of the same creator element.
C6_PairedNames ==
    (op = "generate_citation" /\ outcome = Returned) =>
        /\ Len(result.givenNames) = Len(result.familyNames)
        /\ Len(result.names) = Len(result.givenNames)
        /\ \A i \in 1..Len(result.names) :
             /\ result.names[i] =
                    result.familyNames[i].s \o <<", ">> \o Initials(result.givenNames[i].s)
             /\ \E k \in 1..Len(CreatorsIn(Response.root.children)) :
                    /\ HasChild(CreatorsIn(Response.root.children)[k], "givenName",
                                result.givenNames[i])
                    /\ HasChild(CreatorsIn(Response.root.children)[k], "familyName",
                                result.familyNames[i])

HasRootChild(word) ==
    \E k \in 1..Len(Response.root.children) : Has(Response.root.children[k].tag, word)

HasDOI ==
    \E k \in 1..Len(Response.root.children) :
        /\ Has(Response.root.children[k].tag, "identifier")
        /\ <<"identifierType", "DOI">> \in Response.root.children[k].attrib

\* C7: on a well-formed XML response generate_citation returns a record, in
\* which each field whose element is missing (no DOI identifier, no publisher,
\* no publicationYear, no creators) has its default.
C7_MissingOptional ==
    (op = "generate_citation" /\ Response.kind = "xml") =>
        /\ outcome = Returned
        /\ ~HasDOI => result.doi = PyStr(<<>>)
        /\ ~HasRootChild("publisher") => result.publisher = PyStr(<<>>)
        /\ ~HasRootChild("publicationYear") => result.publicationYear = PyStr(<<>>)
        /\ ~HasRootChild("creators") =>
              result.givenNames = <<>> /\ result.familyNames = <<>>

\* What a direct call of generate_citation on row i of the batch gives
Direct(i) == generate_citation(arg.rows[i], remote[Url(arg.rows[i])])

\* C8: when every row's lookup succeeds, df_to_citations makes one request per
\* row, in row order, and returns a table of as many rows, labelled 0, 1, ...,
\* whose i-th row is the record a direct call of generate_citation on the i-th
\* input row gives.
C8_BatchMatchesDirect ==
    (/\ op = "df_to_citations"
     /\ \A i \in 1..Len(arg.rows) : Direct(i).outcome = Returned) =>
        /\ outcome = Returned
        /\ Len(calls) = Len(arg.rows)
        /\ Len(result.rows) = Len(arg.rows)
        /\ result.index = [i \in 1..Len(arg.rows) |-> i - 1]
        /\ \A i \in 1..Len(arg.rows) :
             /\ calls[i] = Direct(i).calls[1]
             /\ result.rows[i] = Direct(i).result

C8_Witness ==
    /\ op = "df_to_citations"
    /\ Len(arg.rows) = 2
    /\ outcome = Returned
    /\ Len(result.rows) = 2
    /\ result.rows[1].MIP = <<"ScenarioMIP">>
    /\ result.rows[1].names = <<>>
    /\ result.rows[2].MIP = <<"CMIP">>
    /\ Len(result.rows[2].names) = 2

=============================================================================
